---- MODULE Spec2Model ----
(***************************************************************************)
(* Model of src/app.py: the mortgage, break-even rent and year-by-year ROI *)
(* helpers of the rental calculator, and the calls main() makes to them.   *)
(*                                                                         *)
(* Numbers.  A Python number is modelled as a record                       *)
(*     [t |-> type, k |-> kind, n |-> numerator, d |-> denominator]        *)
(* t is the run-time type that decides what a division by zero does:       *)
(* "int" and "float" are Python's own numbers, "float64" is numpy.float64  *)
(* (the elements np.linspace yields).  k is "fin" for the finite value     *)
(* n/d (a reduced fraction, d > 0), "inf" for an infinity of sign n, "nan" *)
(* for not-a-number, and "ZeroDivisionError" for the exception raised      *)
(* while the expression was evaluated (it propagates through every         *)
(* operator, as the exception unwinds the expression).  Finite arithmetic  *)
(* is exact: binary rounding is not modelled, so "within tolerance" in a   *)
(* property is exact equality here.                                        *)
(***************************************************************************)
EXTENDS Integers, Sequences, FiniteSets, TLC

RECURSIVE GCD(_, _)
GCD(a, b) == IF b = 0 THEN a ELSE GCD(b, a % b)

Abs(x) == IF x < 0 THEN -x ELSE x

Sign(x) == IF x > 0 THEN 1 ELSE IF x < 0 THEN -1 ELSE 0

\* The finite value n/d of type t, reduced, with a positive denominator.
Fin(t, n, d) ==
    LET g == GCD(Abs(n), Abs(d))
        s == IF d < 0 THEN -1 ELSE 1
    IN [t |-> t, k |-> "fin", n |-> s * (n \div g), d |-> s * (d \div g)]

PyInt(n) == Fin("int", n, 1)

PyFloat(n, d) == Fin("float", n, d)

NpFloat64(n, d) == Fin("float64", n, d)

Inf(t, s) == [t |-> t, k |-> "inf", n |-> s, d |-> 1]

NaN(t) == [t |-> t, k |-> "nan", n |-> 0, d |-> 1]

\* The exception raised by a division by zero of Python numbers.
ZeroDivisionError == [t |-> "exception", k |-> "ZeroDivisionError", n |-> 0, d |-> 1]

Raises(a) == a.k = "ZeroDivisionError"

IsFin(a) == a.k = "fin"

IsZero(a) == a.k = "fin" /\ a.n = 0

\* Type of the result of a binary operator: numpy.float64 wins over
\* float, float over int.
Typ(a, b) ==
    IF a.t = "float64" \/ b.t = "float64" THEN "float64"
    ELSE IF a.t = "float" \/ b.t = "float" THEN "float"
    ELSE "int"

\* a + b
Add(a, b) ==
    IF Raises(a) \/ Raises(b) THEN ZeroDivisionError
    ELSE LET t == Typ(a, b) IN
      IF a.k = "nan" \/ b.k = "nan" THEN NaN(t)
      ELSE IF a.k = "inf" /\ b.k = "inf"
        THEN IF a.n = b.n THEN Inf(t, a.n) ELSE NaN(t)
      ELSE IF a.k = "inf" THEN Inf(t, a.n)
      ELSE IF b.k = "inf" THEN Inf(t, b.n)
      ELSE LET l == (a.d \div GCD(a.d, b.d)) * b.d
           IN Fin(t, a.n * (l \div a.d) + b.n * (l \div b.d), l)

\* -a
Neg(a) == IF Raises(a) THEN a ELSE [a EXCEPT !.n = -a.n]

\* a - b
Sub(a, b) == Add(a, Neg(b))

\* a * b
Mul(a, b) ==
    IF Raises(a) \/ Raises(b) THEN ZeroDivisionError
    ELSE LET t == Typ(a, b) IN
      IF a.k = "nan" \/ b.k = "nan" THEN NaN(t)
      ELSE IF a.k = "inf" \/ b.k = "inf"
        THEN IF IsZero(a) \/ IsZero(b) THEN NaN(t)
             ELSE Inf(t, Sign(a.n) * Sign(b.n))
      ELSE LET g1 == GCD(Abs(a.n), b.d)
               g2 == GCD(Abs(b.n), a.d)
           IN Fin(t, (a.n \div g1) * (b.n \div g2), (a.d \div g2) * (b.d \div g1))

\* a / b (true division).  A zero divisor raises ZeroDivisionError when
\* both operands are Python numbers; when one is a numpy.float64 the
\* quotient is computed by numpy, which warns and returns inf, -inf or nan.
\* The zero divisors of this program are +0.0 (1 - 1.0, 1.0 - 1).
Div(a, b) ==
    IF Raises(a) \/ Raises(b) THEN ZeroDivisionError
    ELSE LET t == IF Typ(a, b) = "int" THEN "float" ELSE Typ(a, b) IN
      IF IsZero(b)
        THEN IF t = "float64"
               THEN IF a.k = "nan" \/ IsZero(a) THEN NaN(t) ELSE Inf(t, Sign(a.n))
               ELSE ZeroDivisionError
      ELSE IF a.k = "nan" \/ b.k = "nan" THEN NaN(t)
      ELSE IF b.k = "inf"
        THEN IF a.k = "inf" THEN NaN(t) ELSE Fin(t, 0, 1)
      ELSE IF a.k = "inf" THEN Inf(t, a.n * Sign(b.n))
      ELSE LET g1 == GCD(Abs(a.n), Abs(b.n))
               g2 == GCD(a.d, b.d)
           IN Fin(t, (a.n \div g1) * (b.d \div g2), (a.d \div g2) * (b.n \div g1))

RECURSIVE IntPow(_, _)
IntPow(b, e) == IF e = 0 THEN 1 ELSE b * IntPow(b, e - 1)

\* a ** e for a finite Python number a and a Python int e.  A negative
\* exponent gives a float; 0 to a negative power raises ZeroDivisionError.
Pow(a, e) ==
    IF Raises(a) THEN ZeroDivisionError
    ELSE IF e >= 0 THEN Fin(a.t, IntPow(a.n, e), IntPow(a.d, e))
    ELSE IF a.n = 0 THEN ZeroDivisionError
    ELSE Fin(IF a.t = "int" THEN "float" ELSE a.t, IntPow(a.d, -e), IntPow(a.n, -e))

\* Comparisons of finite numbers, used to state the properties.
Eq(a, b) == IsFin(a) /\ IsFin(b) /\ a.n = b.n /\ a.d = b.d

Lt(a, b) == IsFin(a) /\ IsFin(b) /\ Sub(a, b).n < 0

Le(a, b) == IsFin(a) /\ IsFin(b) /\ Sub(a, b).n <= 0


(***************************************************************************)
(* 1) Mortgage & cash-flow helpers                                         *)
(***************************************************************************)

\* loan_amount = (1 - down_payment_pct) * property_value
loan_amount(property_value, down_payment_pct) ==
    Mul(Sub(PyInt(1), down_payment_pct), property_value)

\* m = loan_amount * monthly_interest_rate * (1 + monthly_interest_rate)**n
\*     / ((1 + monthly_interest_rate)**n - 1)
\* evaluated left to right; there is no other branch and no validation.
monthly_mortgage_payment(property_value, down_payment_pct, annual_interest_rate, years) ==
    LET monthly_interest_rate == Div(annual_interest_rate, PyInt(12))
        n == years * 12
        growth == Pow(Add(PyInt(1), monthly_interest_rate), n)
    IN Div(Mul(Mul(loan_amount(property_value, down_payment_pct),
                   monthly_interest_rate),
               growth),
           Sub(growth, PyInt(1)))

required_rent(property_value, down_payment_pct, annual_interest_rate, years, tax_rate_pct, annual_insurance, vacancy_capex_rate, monthly_hoa) ==
    LET annual_tax == Mul(tax_rate_pct, property_value)
        annual_mortgage ==
            Mul(PyInt(12), monthly_mortgage_payment(property_value, down_payment_pct,
                                                    annual_interest_rate, years))
        annual_hoa == Mul(PyInt(12), monthly_hoa)
        fixed_annual_expenses ==
            Add(Add(Add(annual_tax, annual_insurance), annual_mortgage), annual_hoa)
        denom == Mul(PyInt(12), Sub(PyInt(1), vacancy_capex_rate))
    IN Div(fixed_annual_expenses, denom)

(***************************************************************************)
(* 2) Year-by-year cash flow & ROI                                         *)
(***************************************************************************)

\* The mortgage term grown like the HOA term two lines above it
\* (monthly_hoa * 12 * cost_factor).
annual_mortgage_yr_grown(monthly_mortgage, prop_factor, cost_factor) ==
    Mul(Mul(monthly_mortgage, PyInt(12)), cost_factor)

\* The mortgage term of a year's expenses: monthly_mortgage * 12.  The
\* growth factors are in scope at that line and it uses none of them.
annual_mortgage_yr(monthly_mortgage, prop_factor, cost_factor) ==
    Mul(monthly_mortgage, PyInt(12))

\* net_annual_cash_flow_year: its local variables at the return; the value
\* returned is net_cf_yr.
net_annual_cash_flow_year(year_index, base_property_value, base_rent, tax_rate_pct, annual_insurance, monthly_mortgage, monthly_hoa, vacancy_capex_rate, rent_growth, appreciation, other_costs_growth) ==
    LET rent_factor == Pow(Add(PyInt(1), rent_growth), year_index - 1)
        prop_factor == Pow(Add(PyInt(1), appreciation), year_index - 1)
        cost_factor == Pow(Add(PyInt(1), other_costs_growth), year_index - 1)
        property_value_yr == Mul(base_property_value, prop_factor)
        annual_rent_yr == Mul(Mul(PyInt(12), base_rent), rent_factor)
        annual_tax_yr == Mul(tax_rate_pct, property_value_yr)
        annual_insurance_yr == Mul(annual_insurance, cost_factor)
        annual_hoa_yr == Mul(Mul(monthly_hoa, PyInt(12)), cost_factor)
        mortgage_yr == annual_mortgage_yr(monthly_mortgage, prop_factor, cost_factor)
        vacancy_capex_yr == Mul(vacancy_capex_rate, annual_rent_yr)
        total_annual_expenses ==
            Add(Add(Add(Add(annual_tax_yr, annual_insurance_yr), mortgage_yr),
                    annual_hoa_yr),
                vacancy_capex_yr)
    IN [rent_factor |-> rent_factor, prop_factor |-> prop_factor,
        cost_factor |-> cost_factor, annual_rent_yr |-> annual_rent_yr,
        annual_tax_yr |-> annual_tax_yr, annual_insurance_yr |-> annual_insurance_yr,
        annual_hoa_yr |-> annual_hoa_yr, annual_mortgage_yr |-> mortgage_yr,
        vacancy_capex_yr |-> vacancy_capex_yr,
        net_cf_yr |-> Sub(annual_rent_yr, total_annual_expenses)]

\* initial_investment = down_payment_pct * base_property_value + closing_costs
InitialInvestment(base_property_value, down_payment_pct, closing_costs) ==
    Add(Mul(down_payment_pct, base_property_value), closing_costs)

\* roi_i = (net_cf_yr_i / initial_investment) * 100
\*         if initial_investment != 0 else 0
roi(net_cf_yr_i, investment) ==
    IF ~IsZero(investment)
    THEN Mul(Div(net_cf_yr_i, investment), PyInt(100))
    ELSE PyInt(0)

\* values = np.linspace(min_val, max_val, num_points): num_points evenly
\* spaced numpy.float64 from min_val to max_val inclusive.
linspace(min_val, max_val, num_points) ==
    [j \in 1..num_points |->
        IF num_points = 1 THEN NpFloat64(min_val, 1)
        ELSE NpFloat64(min_val * (num_points - 1) + (j - 1) * (max_val - min_val),
                       num_points - 1)]


(***************************************************************************)
(* Inputs.  The helpers are called with the widgets' values; the sets      *)
(* below hold values inside and on the edge of each documented range, and  *)
(* the values past a widget's range that only a direct call of a helper    *)
(* can pass (a term <= 0, a vacancy rate of 1).  A monthly rate of 0 or 1  *)
(* keeps (1 + rate)**n an exact small integer.                             *)
(***************************************************************************)

\* Largest projection horizon (roi_horizon) the model explores.
MaxNumYears == 2

\* Largest number of points of the property-value sweep.
MaxPoints == 3

\* purchase_price is an int (number_input with int bounds); the sweep
\* passes numpy.float64.
PropertyValues == {PyInt(100), PyInt(200), NpFloat64(100, 1)}

DownPayments == {PyFloat(0, 1), PyFloat(1, 2), PyFloat(1, 1)}

InterestRates == {PyFloat(0, 1), PyFloat(12, 1)}

TermYears == {-1, 0, 1}

TaxRates == {PyFloat(0, 1), PyFloat(1, 100)}

Insurances == {PyFloat(0, 1), PyFloat(12, 1)}

VacancyRates == {PyFloat(0, 1), PyFloat(1, 2), PyFloat(1, 1)}

HOAs == {PyFloat(0, 1), PyFloat(5, 1)}

ClosingCosts == {PyFloat(0, 1), PyFloat(10, 1)}

ActualRents == {PyFloat(10, 1)}

SweepRanges == {<<100, 200>>}

NoValue == PyInt(0)

\* Arguments of one call; a helper reads only its own parameters.
NoArgs ==
    [property_value |-> NoValue, down_payment_pct |-> NoValue,
     annual_interest_rate |-> NoValue, years |-> 0, tax_rate_pct |-> NoValue,
     annual_insurance |-> NoValue, vacancy_capex_rate |-> NoValue,
     monthly_hoa |-> NoValue, num_years |-> 0, base_rent |-> NoValue,
     rent_growth |-> NoValue, appreciation |-> NoValue,
     other_costs_growth |-> NoValue, closing_costs |-> NoValue]

LoanArgs ==
    {[NoArgs EXCEPT !.property_value = pv, !.down_payment_pct = dp,
                    !.annual_interest_rate = r, !.years = y] :
        pv \in PropertyValues, dp \in DownPayments, r \in InterestRates,
        y \in TermYears}

RentArgs ==
    {[a EXCEPT !.tax_rate_pct = t, !.annual_insurance = ins,
               !.vacancy_capex_rate = v, !.monthly_hoa = h] :
        a \in LoanArgs, t \in TaxRates, ins \in Insurances, v \in VacancyRates,
        h \in HOAs}

MortgageOf(a) ==
    monthly_mortgage_payment(a.property_value, a.down_payment_pct,
                             a.annual_interest_rate, a.years)

RequiredRentOf(a) ==
    required_rent(a.property_value, a.down_payment_pct, a.annual_interest_rate,
                  a.years, a.tax_rate_pct, a.annual_insurance,
                  a.vacancy_capex_rate, a.monthly_hoa)

\* The Year-1 rents a projection is run with: the rent the user enters, and
\* the break-even rent required_rent returns for the same inputs.
BaseRents(a) ==
    ActualRents \cup (IF IsFin(RequiredRentOf(a)) THEN {RequiredRentOf(a)} ELSE {})

(***************************************************************************)
(* State                                                                   *)
(***************************************************************************)
VARIABLES
    call,               \* the helper being called, "" before any call
    pc,                 \* "idle", "loop", "sweep", "returned" or "raised"
    args,               \* the arguments of the call
    ret,                \* the number a scalar helper returned
    monthly_mort,       \* locals of compute_annual_roi_list
    initial_investment,
    i,
    results,
    locals,             \* locals of net_annual_cash_flow_year, one per call
    run,                \* 1 for the first run of the script, 2 for the rerun
    prev,               \* roi_data of the previous run
    values,             \* locals of the sweep in main
    rents

vars == <<call, pc, args, ret, monthly_mort, initial_investment, i, results,
          locals, run, prev, values, rents>>

Init ==
    /\ call = ""
    /\ pc = "idle"
    /\ args = NoArgs
    /\ ret = NoValue
    /\ monthly_mort = NoValue
    /\ initial_investment = NoValue
    /\ i = 0
    /\ results = <<>>
    /\ locals = <<>>
    /\ run = 1
    /\ prev = <<>>
    /\ values = <<>>
    /\ rents = <<>>

\* A scalar helper ends: it returns what its expression evaluates to, or
\* the exception raised inside it propagates to the caller.
Finish(value) ==
    /\ pc' = IF Raises(value) THEN "raised" ELSE "returned"
    /\ ret' = IF Raises(value) THEN NoValue ELSE value

\* monthly_mortgage_payment(purchase_price, down_payment_pct,
\*                          annual_interest_rate, years)
CallMortgage ==
    /\ pc = "idle"
    /\ \E a \in LoanArgs :
         /\ call' = "monthly_mortgage_payment"
         /\ args' = a
         /\ Finish(MortgageOf(a))
    /\ UNCHANGED <<monthly_mort, initial_investment, i, results, locals, run,
                   prev, values, rents>>

\* required_rent(purchase_price, ..., monthly_hoa)
CallRequiredRent ==
    /\ pc = "idle"
    /\ \E a \in RentArgs :
         /\ call' = "required_rent"
         /\ args' = a
         /\ Finish(RequiredRentOf(a))
    /\ UNCHANGED <<monthly_mort, initial_investment, i, results, locals, run,
                   prev, values, rents>>


\* The projections explored: one tax rate, insurance and HOA, and growth
\* assumptions that move each rate alone.
GrowthAssumptions ==
    {<<PyFloat(0, 1), PyFloat(0, 1), PyFloat(0, 1)>>,
     <<PyFloat(1, 1), PyFloat(0, 1), PyFloat(0, 1)>>,
     <<PyFloat(0, 1), PyFloat(1, 1), PyFloat(0, 1)>>,
     <<PyFloat(0, 1), PyFloat(0, 1), PyFloat(1, 1)>>}

ProjectionArgs ==
    {a \in RentArgs :
        /\ a.property_value \in {PyInt(100), NpFloat64(100, 1)}
        /\ a.years \in {0, 1}
        /\ a.tax_rate_pct = PyFloat(1, 100)
        /\ a.annual_insurance = PyFloat(12, 1)
        /\ a.monthly_hoa = PyFloat(5, 1)
        /\ a.vacancy_capex_rate \in {PyFloat(0, 1), PyFloat(1, 2)}}

RoiArgs ==
    UNION {{[a EXCEPT !.num_years = n, !.base_rent = b, !.rent_growth = g[1],
                      !.appreciation = g[2], !.other_costs_growth = g[3],
                      !.closing_costs = cc] :
               n \in 0..MaxNumYears, b \in BaseRents(a),
               g \in GrowthAssumptions, cc \in ClosingCosts} :
           a \in ProjectionArgs}

\* for i in range(1, num_years): the range without its last index.
InRangeShort(index, num_years) == index < num_years

\* for i in range(1, num_years + 1): whether index i is in the range.
InRange(index, num_years) == index <= num_years

\* Lines 126-135 of compute_annual_roi_list: the mortgage payment is
\* computed once (an exception there ends the call), then the initial
\* investment, then results = [].
EnterRoi(a) ==
    LET m == MortgageOf(a) IN
    /\ call' = "compute_annual_roi_list"
    /\ args' = a
    /\ ret' = NoValue
    /\ IF Raises(m)
       THEN /\ pc' = "raised"
            /\ UNCHANGED <<monthly_mort, initial_investment, i, results, locals>>
       ELSE /\ pc' = "loop"
            /\ monthly_mort' = m
            /\ initial_investment' =
                 InitialInvestment(a.property_value, a.down_payment_pct,
                                   a.closing_costs)
            /\ results' = <<>>
            /\ locals' = <<>>
            /\ i' = 1

\* compute_annual_roi_list(num_years = roi_horizon, ...)
CallRoi ==
    /\ pc = "idle"
    /\ \E a \in RoiArgs : EnterRoi(a)
    /\ UNCHANGED <<run, prev, values, rents>>

\* One iteration of the loop: the year's cash flow, its ROI, append.
RoiLoop ==
    /\ pc = "loop"
    /\ InRange(i, args.num_years)
    /\ \E l \in {net_annual_cash_flow_year(i, args.property_value, args.base_rent,
                             args.tax_rate_pct, args.annual_insurance,
                             monthly_mort, args.monthly_hoa,
                             args.vacancy_capex_rate, args.rent_growth,
                             args.appreciation, args.other_costs_growth)} :
         \E roi_i \in {roi(l.net_cf_yr, initial_investment)} :
           IF Raises(roi_i)
           THEN /\ pc' = "raised"
                /\ UNCHANGED <<i, results, locals>>
           ELSE /\ results' = Append(results, <<i, l.net_cf_yr, roi_i>>)
                /\ locals' = Append(locals, l)
                /\ i' = i + 1
                /\ pc' = "loop"
    /\ UNCHANGED <<call, args, ret, monthly_mort, initial_investment, run, prev,
                   values, rents>>

\* return results
RoiReturn ==
    /\ pc = "loop"
    /\ ~InRange(i, args.num_years)
    /\ pc' = "returned"
    /\ UNCHANGED <<call, args, ret, monthly_mort, initial_investment, i, results,
                   locals, run, prev, values, rents>>

\* The script runs again with the widgets unchanged: the same call with
\* the same arguments; prev keeps the roi_data of the run before.
Rerun ==
    /\ pc = "returned"
    /\ call = "compute_annual_roi_list"
    /\ run = 1
    /\ run' = 2
    /\ prev' = results
    /\ EnterRoi(args)
    /\ UNCHANGED <<values, rents>>

\* The sweep's operating inputs; its property values come from linspace.
SweepArgs == {a \in RentArgs : a.property_value = PyInt(100)}

\* values = np.linspace(min_val, max_val, num_points); rents = []
SweepEnter ==
    /\ pc = "idle"
    /\ \E a \in SweepArgs, range \in SweepRanges, num_points \in 2..MaxPoints :
         /\ call' = "sweep"
         /\ args' = a
         /\ values' = linspace(range[1], range[2], num_points)
    /\ rents' = <<>>
    /\ pc' = "sweep"
    /\ UNCHANGED <<ret, monthly_mort, initial_investment, i, results, locals,
                   run, prev>>

\* for v in values: r = required_rent(v, ...); rents.append(r)
SweepStep ==
    /\ pc = "sweep"
    /\ Len(rents) < Len(values)
    /\ LET v == values[Len(rents) + 1]
           r == RequiredRentOf([args EXCEPT !.property_value = v])
       IN IF Raises(r)
          THEN pc' = "raised" /\ rents' = rents
          ELSE pc' = "sweep" /\ rents' = Append(rents, r)
    /\ UNCHANGED <<call, args, ret, monthly_mort, initial_investment, i, results,
                   locals, run, prev, values>>

\* The loop over values is exhausted; the rents are plotted.
SweepReturn ==
    /\ pc = "sweep"
    /\ Len(rents) = Len(values)
    /\ pc' = "returned"
    /\ UNCHANGED <<call, args, ret, monthly_mort, initial_investment, i, results,
                   locals, run, prev, values, rents>>

Next ==
    \/ CallMortgage
    \/ CallRequiredRent
    \/ CallRoi
    \/ RoiLoop
    \/ RoiReturn
    \/ Rerun
    \/ SweepEnter
    \/ SweepStep
    \/ SweepReturn

Spec == Init /\ [][Next]_vars


(***************************************************************************)
(* Properties                                                              *)
(***************************************************************************)

\* The call has ended, by a return or by an exception.
Finished == pc \in {"returned", "raised"}

Zero == PyInt(0)

IsPositive(a) == IsFin(a) /\ a.n > 0

\* LoanTerms of the data model: value > 0, 0 <= fraction < 1, rate >= 0,
\* term > 0.
ValidLoan(a) ==
    /\ IsPositive(a.property_value)
    /\ Le(Zero, a.down_payment_pct) /\ Lt(a.down_payment_pct, PyInt(1))
    /\ Le(Zero, a.annual_interest_rate)
    /\ a.years > 0

\* The loan parameters of a call alone.
LoanOf(a) ==
    [NoArgs EXCEPT !.property_value = a.property_value,
                   !.down_payment_pct = a.down_payment_pct,
                   !.annual_interest_rate = a.annual_interest_rate,
                   !.years = a.years]

\* C1: a call of monthly_mortgage_payment with annual_interest_rate = 0
\* and years > 0 returns loan_amount / (12 * years); it does not end in a
\* division by zero.
C1_ZeroRateReturnsLoanOverN ==
    (/\ call = "monthly_mortgage_payment"
     /\ Finished
     /\ IsZero(args.annual_interest_rate)
     /\ args.years > 0)
    => /\ pc = "returned"
       /\ Eq(ret, Div(loan_amount(args.property_value, args.down_payment_pct),
                      PyInt(12 * args.years)))

\* C2: a call of required_rent with vacancy_capex_rate = 1, and a loan
\* whose mortgage payment is defined, ends in a division-by-zero error and
\* returns no value, whatever the numeric type of property_value; the
\* property-value sweep collects no rent either.
C2_VacancyOneRaises ==
    /\ (/\ call = "required_rent"
        /\ Finished
        /\ Eq(args.vacancy_capex_rate, PyInt(1))
        /\ args.years > 0
        /\ IsFin(MortgageOf(args)))
       => pc = "raised"
    /\ (/\ call = "sweep"
        /\ Eq(args.vacancy_capex_rate, PyInt(1))
        /\ args.years > 0
        /\ \A j \in 1..Len(values) :
              IsFin(MortgageOf([args EXCEPT !.property_value = values[j]])))
       => rents = <<>>

\* C3: a call of monthly_mortgage_payment with down_payment_pct = 1 and
\* years > 0 returns 0, whatever the interest rate (0 included).
C3_FullDownPaymentReturnsZero ==
    (/\ call = "monthly_mortgage_payment"
     /\ Finished
     /\ Eq(args.down_payment_pct, PyInt(1))
     /\ args.years > 0)
    => pc = "returned" /\ IsZero(ret)

\* C4: a call of monthly_mortgage_payment with years <= 0 ends in an error
\* and returns no payment.
C4_NonPositiveTermRejected ==
    (/\ call = "monthly_mortgage_payment"
     /\ Finished
     /\ args.years <= 0)
    => pc = "raised"

\* C5: compute_annual_roi_list returns exactly num_years results with year
\* indices 1..num_years in increasing order, and the rerun with the same
\* inputs returns the same sequence as the run before.
C5_ExactlyNResultsInOrder ==
    call = "compute_annual_roi_list" =>
      /\ \A k \in 1..Len(results) : results[k][1] = k
      /\ pc = "returned" =>
           /\ Len(results) = args.num_years
           /\ run = 2 => results = prev

\* A rerun returned a projection of two or more years.
C5_Witness ==
    /\ call = "compute_annual_roi_list"
    /\ pc = "returned"
    /\ run = 2
    /\ args.num_years >= 2
    /\ Len(prev) = args.num_years

\* C6: with base_rent = required_rent(...) of the same valid inputs,
\* vacancy_capex_rate < 1 and all growth rates 0, the break-even rent is
\* defined and the Year-1 net cash flow compute_annual_roi_list returns
\* is 0.
C6_BreakEvenRoundTrip ==
    (/\ call = "compute_annual_roi_list"
     /\ Finished
     /\ ValidLoan(args)
     /\ Le(Zero, args.vacancy_capex_rate)
     /\ Lt(args.vacancy_capex_rate, PyInt(1))
     /\ IsZero(args.rent_growth)
     /\ IsZero(args.appreciation)
     /\ IsZero(args.other_costs_growth)
     /\ args.num_years >= 1)
    => /\ IsFin(RequiredRentOf(args))
       /\ Eq(args.base_rent, RequiredRentOf(args))
            => pc = "returned" /\ IsZero(results[1][2])

\* C7: when the initial investment is 0 the call raises no error and every
\* year's ROI is exactly 0; otherwise the ROI of year i is
\* net cash flow / initial investment * 100.
C7_ZeroInvestmentGuard ==
    (/\ call = "compute_annual_roi_list"
     /\ Finished
     /\ args.years > 0
     /\ args.num_years >= 1)
    => IF IsZero(InitialInvestment(args.property_value, args.down_payment_pct,
                                   args.closing_costs))
       THEN /\ pc = "returned"
            /\ \A k \in 1..Len(results) : results[k][3] = Zero
       ELSE pc = "returned" =>
              \A k \in 1..Len(results) :
                 results[k][3] =
                   Mul(Div(results[k][2],
                           InitialInvestment(args.property_value,
                                             args.down_payment_pct,
                                             args.closing_costs)),
                       PyInt(100))

\* C8: for valid inputs the total of payments, payment * 12 * years,
\* exceeds the loan amount when the rate is positive and equals it when the
\* rate is 0.
C8_TotalOfPayments ==
    (/\ call = "monthly_mortgage_payment"
     /\ Finished
     /\ ValidLoan(args))
    => /\ pc = "returned"
       /\ IF IsZero(args.annual_interest_rate)
          THEN Eq(Mul(ret, PyInt(12 * args.years)),
                  loan_amount(args.property_value, args.down_payment_pct))
          ELSE Lt(loan_amount(args.property_value, args.down_payment_pct),
                  Mul(ret, PyInt(12 * args.years)))

\* The inputs that raise one of property_value, tax_rate_pct,
\* annual_insurance, monthly_hoa, annual_interest_rate and keep the rest.
Raised(a) ==
    {b \in RentArgs :
        /\ b.property_value.t = a.property_value.t
        /\ \E f \in {"property_value", "tax_rate_pct", "annual_insurance",
                     "monthly_hoa", "annual_interest_rate"} :
              /\ Lt(a[f], b[f])
              /\ b = [a EXCEPT ![f] = b[f]]}

\* C9: required_rent does not decrease when one of property_value,
\* tax_rate_pct, annual_insurance, monthly_hoa, annual_interest_rate is
\* raised (the rate from 0 included) and the other valid inputs are kept.
C9_RequiredRentMonotone ==
    (/\ call = "required_rent"
     /\ Finished
     /\ ValidLoan(args)
     /\ Le(Zero, args.vacancy_capex_rate)
     /\ Lt(args.vacancy_capex_rate, PyInt(1)))
    => /\ pc = "returned"
       /\ \A b \in Raised(args) : Le(ret, RequiredRentOf(b))

\* C10: in every projection the mortgage term of every year's expenses is
\* 12 * monthly_mortgage_payment of the original loan inputs, the same in
\* every year whatever the growth rates; Year 1 applies no growth.
C10_MortgageTermFixed ==
    call = "compute_annual_roi_list" =>
      /\ \A k \in 1..Len(locals) :
            /\ locals[k].annual_mortgage_yr = Mul(PyInt(12), MortgageOf(LoanOf(args)))
            /\ locals[k].annual_mortgage_yr = locals[1].annual_mortgage_yr
      /\ Len(locals) >= 1 =>
            /\ Eq(locals[1].rent_factor, PyInt(1))
            /\ Eq(locals[1].prop_factor, PyInt(1))
            /\ Eq(locals[1].cost_factor, PyInt(1))

\* A second year was projected with a nonzero payment and growing costs:
\* insurance and HOA grew, the mortgage term did not.
C10_Witness ==
    /\ call = "compute_annual_roi_list"
    /\ Len(locals) >= 2
    /\ IsPositive(monthly_mort)
    /\ IsPositive(args.other_costs_growth)
    /\ Lt(locals[1].annual_hoa_yr, locals[2].annual_hoa_yr)
    /\ Lt(locals[1].annual_insurance_yr, locals[2].annual_insurance_yr)

====
